---- MODULE Spec2Model ----
(***************************************************************************)
(* Hybrid (BM25 + vector) search of the arXiv search engines of this       *)
(* repository.  Three implementations of the search operation exist:       *)
(*   FC  : final_code/search_engine.py  HybridSearchEngine.hybrid_search   *)
(*         over final_code/database.py  VectorDatabase.search              *)
(*   ASE : arxiv-search-engine/src/search_engine.py  SearchEngine          *)
(*         (hybrid_search and faceted_search)                              *)
(*   AX  : ArxIV/backend.py  hybrid_search behind POST /search             *)
(*                                                                         *)
(* Scores are exact rationals num/den with den > 0 (floating point         *)
(* rounding is not modelled).  The raw BM25 score of a document for the    *)
(* request's query (rank_bm25) and the cosine distance the vector store    *)
(* reports for it (chromadb) are inputs: bm25 in Bm25Set, dist in DistSet  *)
(* counted in units of 1/DistDen.                                          *)
(***************************************************************************)
EXTENDS Integers, Sequences, FiniteSets, TLC

VARIABLES impl, docs, req, pc, calls, semChan, lexChan, fused, results,
          call, ret, alt, first,
          collection, papers_cache, bm25, documents_corpus, seen

\* one search request and what it computed
searchVars == <<impl, docs, req, pc, calls, semChan, lexChan, fused, results>>
\* one call of a helper operation (expansion, summary, date filter) and its
\* return value
callVars == <<call, ret>>
\* the same request executed a second time
repeatVars == <<alt, first>>
\* the stores that ingestion writes and what a search read of them
storeVars == <<collection, papers_cache, bm25, documents_corpus, seen>>

vars == <<searchVars, callVars, repeatVars, storeVars>>

\* a variable that holds nothing (never read in that state)
None == "None"
\* bm25 = None: no lexical index has been built
NoIndex == [built |-> FALSE, corpus |-> <<>>]
\* no search has read the stores
NoRead == [by |-> None, lex |-> <<>>, ids |-> <<>>, sem |-> <<>>, cache |-> <<>>]

(* ------------------------------ bounds -------------------------------- *)

\* largest corpus
NDocs == 3
\* the fusion weight is alpha / AlphaDen
AlphaDen == 2
\* a distance is dist / DistDen
DistDen == 2

Bm25Set == {0, 4, 12, 20}
DistSet == {DistDen - 1, DistDen + 1}
AlphaSet == {0, 1, AlphaDen, AlphaDen + 1}
TopKSet == {-1, 0, 1, 2, 3}
Categories == {"cs.CV", "cs.LG"}
NoFilter == "none"
FilterSet == {NoFilter, "cs.CV"}
Impls == {"FC", "ASE", "ASEF", "AX"}

(* --------------------------- program constants ------------------------ *)

\* lex_score = min(lexical_score / 10.0, 1.0)
LexCap == 10
\* bm25_score / (max_bm25 + 1e-6), counted in millionths
Million == 1000000

(* ------------------------------ helpers ------------------------------- *)

Min(a, b) == IF a <= b THEN a ELSE b
Max(a, b) == IF a >= b THEN a ELSE b

SetMax(S) == CHOOSE x \in S : \A y \in S : y <= x
SetMin(S) == CHOOSE x \in S : \A y \in S : x <= y

\* Python's seq[lo:hi] for integers lo, hi (negative counts from the end)
PyIndex(i, n) == IF i < 0 THEN Max(i + n, 0) ELSE Min(i, n)
PySlice(s, lo, hi) == SubSeq(s, PyIndex(lo, Len(s)) + 1, PyIndex(hi, Len(s)))
\* seq[:k]
PyHead(s, k) == PySlice(s, 0, k)
\* seq[-n:]  (Python evaluates -n first: -0 is 0, the whole sequence)
PyTail(s, n) == PySlice(s, -n, Len(s))

Reverse(s) == [i \in 1..Len(s) |-> s[Len(s) + 1 - i]]

\* the sequences over S of length at most n
SeqsOf(S, n) == UNION {[1..k -> S] : k \in 0..n}

\* stable ascending sort of records by their field key
RECURSIVE InsertAsc(_, _)
InsertAsc(s, x) ==
    IF s = <<>> THEN <<x>>
    ELSE IF s[Len(s)].key <= x.key THEN Append(s, x)
    ELSE Append(InsertAsc(SubSeq(s, 1, Len(s) - 1), x), s[Len(s)])

RECURSIVE SortAsc(_)
SortAsc(s) ==
    IF s = <<>> THEN <<>>
    ELSE InsertAsc(SortAsc(SubSeq(s, 1, Len(s) - 1)), s[Len(s)])

\* list.sort(key, reverse=True): descending, equal keys keep their order
RECURSIVE InsertDesc(_, _)
InsertDesc(s, x) ==
    IF s = <<>> THEN <<x>>
    ELSE IF s[Len(s)].key >= x.key THEN Append(s, x)
    ELSE Append(InsertDesc(SubSeq(s, 1, Len(s) - 1), x), s[Len(s)])

\* the sort left out
Unsorted(s) == s

RECURSIVE SortDesc(_)
SortDesc(s) ==
    IF s = <<>> THEN <<>>
    ELSE InsertDesc(SortDesc(SubSeq(s, 1, Len(s) - 1)), s[Len(s)])

(* ------------------------- the two stores ----------------------------- *)

\* chromadb collection.query: the n nearest documents that pass the where
\* clause, nearest first (equal distances in insertion order); zero is TRUE
\* when the query vector is the all-zero placeholder, whose cosine distance
\* to every document is 1 (its dot product with any vector is 0)
QueryDist(d, i, zero) == IF zero THEN DistDen ELSE d[i].dist

VectorQuery(d, n, where, zero) ==
    LET all == [i \in 1..Len(d) |-> [id |-> i, key |-> QueryDist(d, i, zero)]]
        pass(e) == where = NoFilter \/ d[e.id].cat = where
        near == SortAsc(SelectSeq(all, pass))
    IN  SubSeq(near, 1, Min(n, Len(near)))

\* collection.query raises when the store is unavailable and when asked
\* for a number of results that is not positive
QueryRaises(r, n) == ~r.queryOk \/ n <= 0

\* np.argsort(scores): ascending, and stable on arrays this short
ArgSort(d) == SortAsc([i \in 1..Len(d) |-> [idx |-> i, key |-> d[i].bm25]])

Positive(e) == e.key > 0

(* ------------------ final_code: HybridSearchEngine -------------------- *)

\* VectorDatabase.search -> [raised, res]; each hit carries score = 1 - distance
FC_db_search(d, r, n) ==
    IF ~r.embedOk THEN [raised |-> FALSE, res |-> <<>>]
    ELSE IF QueryRaises(r, n) THEN [raised |-> TRUE, res |-> <<>>]
    ELSE LET q == VectorQuery(d, n, r.filter, FALSE)
         IN  [raised |-> FALSE,
              res |-> [k \in 1..Len(q) |-> [id |-> q[k].id, key |-> DistDen - q[k].key]]]

\* HybridSearchEngine.bm25_search
FC_bm25_search(d, top_k) ==
    IF Len(d) = 0 THEN <<>>
    ELSE SelectSeq(PyHead(Reverse(ArgSort(d)), top_k), Positive)

\* max - min if max != min else 1
FC_range(ch) ==
    LET ks == {ch[k].key : k \in 1..Len(ch)}
    IN  IF ch = <<>> THEN 1
        ELSE IF SetMax(ks) # SetMin(ks) THEN SetMax(ks) - SetMin(ks) ELSE 1

\* (score - min) / range, as the numerator over FC_range
FC_normalized(ch, k) == ch[k].key - SetMin({ch[j].key : j \in 1..Len(ch)})

\* the two weights exchanged
FC_hybrid_swapped(a, semNum, semDen, lexNum, lexDen) ==
    (AlphaDen - a) * semNum * lexDen + a * lexNum * semDen

\* semantic_weight * semantic_score + (1 - semantic_weight) * bm25_score
FC_hybrid(a, semNum, semDen, lexNum, lexDen) ==
    a * semNum * lexDen + (AlphaDen - a) * lexNum * semDen

\* the else branch left out: only semantic hits are kept
FC_bm25_only_dropped(sem, lex) == <<>>

\* the BM25 hits that get an entry of their own: doc_id not in combined_results
FC_bm25_only(sem, lex) ==
    LET isNew(e) == e.idx \notin {sem[k].id : k \in 1..Len(sem)}
    IN  SelectSeq(lex, isNew)

\* combined_results, in the dictionary's insertion order, then the final
\* scores and the sort
FC_fuse(d, a, sem, lex) ==
    LET semDen == FC_range(sem)
        lexDen == FC_range(lex)
        known(e) == e.idx <= Len(d)
        lexIn == SelectSeq(lex, known)
        lexPos(id) == {k \in 1..Len(lex) : lex[k].idx = id /\ known(lex[k])}
        lexOf(id) == IF lexPos(id) = {} THEN 0
                     ELSE FC_normalized(lex, SetMax(lexPos(id)))
        lexNew == FC_bm25_only(sem, lexIn)
        entry(id, sn, ln) ==
            [id |-> id, semNum |-> sn, semDen |-> semDen,
             lexNum |-> ln, lexDen |-> lexDen,
             key |-> FC_hybrid(a, sn, semDen, ln, lexDen),
             den |-> AlphaDen * semDen * lexDen]
        semPart == [k \in 1..Len(sem) |->
                      entry(sem[k].id, FC_normalized(sem, k), lexOf(sem[k].id))]
        lexPart == [k \in 1..Len(lexNew) |->
                      entry(lexNew[k].idx, 0, lexOf(lexNew[k].idx))]
    IN  SortDesc(semPart \o lexPart)

\* hybrid_search over a bm25_search that lacks its first guard: with no
\* index built, None.get_scores raises
FC_hybrid_search_unguarded(d, r) ==
    LET vec == FC_db_search(d, r, r.topK * 2)
        lex == SelectSeq(PyHead(Reverse(ArgSort(d)), r.topK * 2), Positive)
        all == FC_fuse(d, r.alpha, vec.res, lex)
        made == {"expand", "embed"} \cup (IF r.embedOk THEN {"vector"} ELSE {})
    IN  IF vec.raised \/ Len(d) = 0
        THEN [raised |-> TRUE, calls |-> made, sem |-> <<>>, lex |-> <<>>,
              fused |-> <<>>, results |-> <<>>]
        ELSE [raised |-> FALSE, calls |-> made \cup {"lexical"}, sem |-> vec.res,
              lex |-> lex, fused |-> all, results |-> PyHead(all, r.topK)]

\* HybridSearchEngine.hybrid_search
FC_hybrid_search(d, r) ==
    LET vec == FC_db_search(d, r, r.topK * 2)
        lex == FC_bm25_search(d, r.topK * 2)
        all == FC_fuse(d, r.alpha, vec.res, lex)
        made == {"expand", "embed"} \cup (IF r.embedOk THEN {"vector"} ELSE {})
    IN  IF vec.raised
        THEN [raised |-> TRUE, calls |-> made, sem |-> <<>>, lex |-> <<>>,
              fused |-> <<>>, results |-> <<>>]
        ELSE [raised |-> FALSE, calls |-> made \cup {"lexical"}, sem |-> vec.res,
              lex |-> lex, fused |-> all, results |-> PyHead(all, r.topK)]

(* --------------- arxiv-search-engine: SearchEngine -------------------- *)

\* config['search']['hybrid_weights']: semantic = alpha, lexical = 1 - alpha
ASE_semantic_weight(r) == r.alpha
ASE_lexical_weight(r) == AlphaDen - r.alpha

\* SearchEngine.semantic_search: get_embedding answers a failure of the
\* provider with the placeholder [0.0] * 768 and the query still runs; any
\* exception of the query gives []
ASE_semantic_search(d, r, n) ==
    IF QueryRaises(r, n) THEN <<>>
    ELSE LET q == VectorQuery(d, n, NoFilter, ~r.embedOk)
         IN  [k \in 1..Len(q) |-> [id |-> q[k].id, key |-> DistDen - q[k].key]]

\* SearchEngine.lexical_search: np.argsort(scores)[-n:][::-1]; without an
\* index (none is built over an empty collection) the answer is []
ASE_lexical_search(d, n) ==
    IF Len(d) = 0 THEN <<>>
    ELSE SelectSeq(Reverse(PyTail(ArgSort(d), n)), Positive)

\* min(lexical_score / 10.0, 1.0) if lexical_score > 0 else 0, in tenths
ASE_lex_score(raw) == IF raw > 0 THEN Min(raw, LexCap) ELSE 0

\* SearchEngine.hybrid_search
ASE_hybrid_search(d, r, n) ==
    LET sem == ASE_semantic_search(d, r, n * 2)
        lex == ASE_lexical_search(d, n * 2)
        semIds == {sem[k].id : k \in 1..Len(sem)}
        lexPos(id) == {k \in 1..Len(lex) : lex[k].idx = id}
        lexOf(id) == IF lexPos(id) = {} THEN 0
                     ELSE ASE_lex_score(lex[SetMax(lexPos(id))].key)
        isNew(e) == e.idx \notin semIds
        lexNew == SelectSeq(lex, isNew)
        entry(id, sn, ln) ==
            [id |-> id, semNum |-> sn, semDen |-> DistDen,
             lexNum |-> ln, lexDen |-> LexCap,
             key |-> ASE_semantic_weight(r) * sn * LexCap
                     + ASE_lexical_weight(r) * ln * DistDen,
             den |-> AlphaDen * DistDen * LexCap]
        semPart == [k \in 1..Len(sem) |->
                      entry(sem[k].id, sem[k].key, lexOf(sem[k].id))]
        lexPart == [k \in 1..Len(lexNew) |->
                      entry(lexNew[k].idx, 0, lexOf(lexNew[k].idx))]
        all == SortDesc(semPart \o lexPart)
    IN  [raised |-> FALSE, calls |-> {"expand", "embed", "vector", "lexical"},
         sem |-> sem, lex |-> lex, fused |-> all, results |-> PyHead(all, n)]

\* SearchEngine.faceted_search
ASE_faceted_search(d, r) ==
    LET out == ASE_hybrid_search(d, r, r.topK * 2)
        include(e) == d[e.id].cat = r.filter
    IN  [out EXCEPT !.results =
            IF r.filter = NoFilter THEN PyHead(out.results, r.topK)
            ELSE PyHead(SelectSeq(out.results, include), r.topK)]

(* ------------------------- ArxIV/backend.py --------------------------- *)

\* hybrid_search of the backend: every paper of papers_cache is scored
AX_hybrid_search(d, r) ==
    LET n == Min(r.topK * 2, Len(d))
        sem == IF r.embedOk /\ ~QueryRaises(r, n)
               THEN VectorQuery(d, n, NoFilter, FALSE) ELSE <<>>
        semPos(id) == {k \in 1..Len(sem) : sem[k].id = id}
        max_bm25 == IF Len(d) > 0 THEN SetMax({d[i].bm25 : i \in 1..Len(d)}) ELSE 0
        lexDen == IF max_bm25 > 0 THEN max_bm25 * Million + 1 ELSE 1
        lexNum(i) == IF max_bm25 > 0 THEN d[i].bm25 * Million ELSE 0
        semNum(i) == IF semPos(i) = {} THEN 0
                     ELSE Max(0, DistDen - sem[SetMin(semPos(i))].key)
        paper(i) == [id |-> i, semNum |-> semNum(i), semDen |-> DistDen,
                     lexNum |-> lexNum(i), lexDen |-> lexDen,
                     key |-> lexNum(i) * DistDen + semNum(i) * lexDen,
                     den |-> 2 * lexDen * DistDen]
        keep(e) == r.filter = NoFilter \/ d[e.id].cat = r.filter
        papers == SortDesc(SelectSeq([i \in 1..Len(d) |-> paper(i)], keep))
    IN  IF Len(d) = 0
        THEN [raised |-> FALSE, calls |-> {}, sem |-> <<>>, lex |-> <<>>,
              fused |-> <<>>, results |-> <<>>]
        ELSE [raised |-> FALSE,
              calls |-> {"expand", "embed", "lexical"}
                        \cup (IF r.embedOk THEN {"vector"} ELSE {}),
              sem |-> [k \in 1..Len(sem) |->
                         [id |-> sem[k].id, key |-> Max(0, DistDen - sem[k].key)]],
              lex |-> [i \in 1..Len(d) |-> [idx |-> i, key |-> d[i].bm25]],
              fused |-> papers, results |-> PyHead(papers, r.topK)]

(* --------------------------- the requests ----------------------------- *)

ReqSet == [alpha : AlphaSet, topK : TopKSet, filter : FilterSet,
           embedOk : BOOLEAN, queryOk : BOOLEAN]

\* what a request of each implementation carries: only final_code takes the
\* weight from its caller, and SearchEngine.hybrid_search takes no filter
Carries(i, r) ==
    /\ i = "AX" => r.alpha = 0
    /\ i \in {"ASE", "ASEF"} => r.alpha \in 0..AlphaDen
    /\ i = "ASE" => r.filter = NoFilter
    /\ i \in {"FC", "AX"} => (r.embedOk \/ r.queryOk)

\* the corpora of at most NDocs documents; without a category filter no
\* category is read, and one corpus stands for all that differ in categories
CorporaOf(cats) ==
    UNION {[1..n -> [bm25 : Bm25Set, dist : DistSet, cat : cats]] : n \in 0..NDocs}

Corpora(r) == CorporaOf(IF r.filter = NoFilter THEN {"cs.CV"} ELSE Categories)

\* nothing computed yet
NoOutput ==
    /\ calls = {}
    /\ semChan = <<>>
    /\ lexChan = <<>>
    /\ fused = <<>>
    /\ results = <<>>

\* no helper call, no second execution, no ingestion
NoCall == call = None /\ ret = None
NoRepeat == alt = <<>> /\ first = <<>>
NoStores ==
    /\ collection = <<>>
    /\ papers_cache = <<>>
    /\ bm25 = NoIndex
    /\ documents_corpus = <<>>
    /\ seen = NoRead

InitOf(impls, reqs) ==
    /\ impl \in impls
    /\ req \in reqs
    /\ Carries(impl, req)
    /\ docs \in Corpora(req)
    /\ pc = "received"
    /\ NoOutput
    /\ NoCall /\ NoRepeat /\ NoStores

Init == InitOf(Impls, ReqSet)

\* what an execution computed
Record(out) ==
    /\ calls' = out.calls
    /\ semChan' = out.sem
    /\ lexChan' = out.lex
    /\ fused' = out.fused
    /\ results' = out.results

Finish(out) ==
    /\ pc' = IF out.raised THEN "raised" ELSE "returned"
    /\ Record(out)
    /\ UNCHANGED <<impl, docs, req, callVars, repeatVars, storeVars>>

SearchFC ==
    /\ pc = "received"
    /\ impl = "FC"
    /\ Finish(FC_hybrid_search(docs, req))

SearchASE ==
    /\ pc = "received"
    /\ impl = "ASE"
    /\ Finish(ASE_hybrid_search(docs, req, req.topK))

FacetedASE ==
    /\ pc = "received"
    /\ impl = "ASEF"
    /\ Finish(ASE_faceted_search(docs, req))

SearchAX ==
    /\ pc = "received"
    /\ impl = "AX"
    /\ Finish(AX_hybrid_search(docs, req))

Next == SearchFC \/ SearchASE \/ FacetedASE \/ SearchAX

Spec == Init /\ [][Next]_vars

\* the fusion alone: the two engines that merge two ranked channel results,
\* called without a category filter for a positive number of results
InitFusion ==
    InitOf({"FC", "ASE"}, {r \in ReqSet : r.filter = NoFilter /\ r.topK >= 1})

NextFusion == SearchFC \/ SearchASE

SpecFusion == InitFusion /\ [][NextFusion]_vars

(* ----------------------------- ingestion ------------------------------ *)

\* the papers arXiv can return, by their arXiv id
NPapers == 2
\* longest batch handed to an ingest operation
MaxBatch == 2
\* most entries a store is filled with
MaxStored == 3

Papers == 1..NPapers
Batches == SeqsOf(Papers, MaxBatch)

\* the papers of a sequence of store entries, in the store's order
PapersOf(coll) == [k \in 1..Len(coll) |-> coll[k].paper]
IdsOf(coll) == {coll[k].id : k \in 1..Len(coll)}
Range(q) == {q[k] : k \in 1..Len(q)}
Distinct(q) == \A i, j \in 1..Len(q) : q[i] = q[j] => i = j

\* collection.add: raises, adding nothing, when the store fails or when two
\* of the ids handed to it are equal; an id the collection already holds is
\* left as it is
AddRaises(entries, addOk) ==
    ~addOk \/ ~Distinct([k \in 1..Len(entries) |-> entries[k].id])

CollectionAdd(coll, entries) ==
    LET fresh(e) == e.id \notin IdsOf(coll)
    IN  coll \o SelectSeq(entries, fresh)

\* store_papers of ArxIV/backend.py -> [ret, cache, coll, index]; failAt is
\* the first new paper whose embedding call fails (0: none does)
AX_store_papers(cache, coll, index, papers, failAt, addOk) ==
    LET isNew(q) == q \notin Range(cache)
        new_papers == SelectSeq(papers, isNew)
        cached == cache \o new_papers
        entries == [k \in 1..Len(new_papers) |->
                      [id |-> <<new_papers[k]>>, paper |-> new_papers[k]]]
    IN  IF new_papers = <<>>
        THEN [ret |-> "None", cache |-> cache, coll |-> coll, index |-> index]
        ELSE IF failAt \in 1..Len(new_papers) \/ AddRaises(entries, addOk)
        THEN [ret |-> "False", cache |-> cached, coll |-> coll, index |-> index]
        ELSE [ret |-> "True", cache |-> cached, coll |-> CollectionAdd(coll, entries),
              index |-> [built |-> TRUE, corpus |-> cached]]

\* doc_id = f"doc_{i}_{doc.get('id', '')}"
FC_doc_id(i, paper) == <<"doc", i, paper>>

\* VectorDatabase.add_documents -> [raised, coll]; failed is the set of
\* positions whose embedding call fails (those documents are skipped)
FC_add_documents(coll, documents, failed, addOk) ==
    LET all == [k \in 1..Len(documents) |->
                  [id |-> FC_doc_id(k - 1, documents[k]), paper |-> documents[k], pos |-> k]]
        embedded(e) == e.pos \notin failed
        kept == SelectSeq(all, embedded)
        entries == [k \in 1..Len(kept) |-> [id |-> kept[k].id, paper |-> kept[k].paper]]
    IN  IF entries = <<>> THEN [raised |-> FALSE, coll |-> coll]
        ELSE IF AddRaises(entries, addOk) THEN [raised |-> TRUE, coll |-> coll]
        ELSE [raised |-> FALSE, coll |-> CollectionAdd(coll, entries)]

\* ArxivIngestion.ingest_documents -> [raised, ret, coll]
FC_ingest_documents(coll, documents, failed, addOk) ==
    LET out == FC_add_documents(coll, documents, failed, addOk)
    IN  IF documents = <<>> THEN [raised |-> FALSE, ret |-> 0, coll |-> coll]
        ELSE [raised |-> out.raised, ret |-> Len(documents), coll |-> out.coll]

\* unique_docs of ArxivIngestion.quick_ingest: the first occurrence of each id
RECURSIVE UniqueDocs(_)
UniqueDocs(q) ==
    IF q = <<>> THEN <<>>
    ELSE LET head == UniqueDocs(SubSeq(q, 1, Len(q) - 1))
         IN  IF q[Len(q)] \in Range(head) THEN head ELSE Append(head, q[Len(q)])

\* ArxivIngestion.quick_ingest
FC_quick_ingest(coll, all_docs, failed, addOk) ==
    FC_ingest_documents(coll, UniqueDocs(all_docs), failed, addOk)

\* DataIngestion.process_papers -> [raised, coll], each paper of one chunk;
\* a failed embedding call is answered with the placeholder vector and the
\* chunk is stored all the same
ASE_process_papers(coll, papers, addOk) ==
    LET entries == [k \in 1..Len(papers) |->
                      [id |-> <<papers[k], "chunk", 0>>, paper |-> papers[k]]]
    IN  IF AddRaises(entries, addOk) THEN [raised |-> TRUE, coll |-> coll]
        ELSE [raised |-> FALSE, coll |-> CollectionAdd(coll, entries)]

\* what hybrid_search reads of the stores: lex the corpus whose BM25 scores
\* it ranks, ids the sequence a lexical hit's position is looked up in, sem
\* the documents the vector query ranks, cache the corpus cache
FC_reads(coll, corpus) ==
    [by |-> "FC", lex |-> corpus, ids |-> PapersOf(coll), sem |-> PapersOf(coll),
     cache |-> <<>>]

ASE_reads(coll, corpus) ==
    [by |-> "ASE", lex |-> corpus, ids |-> corpus, sem |-> PapersOf(coll),
     cache |-> <<>>]

AX_reads(cache, coll, index) ==
    IF cache = <<>>
    THEN [by |-> "AX", lex |-> <<>>, ids |-> <<>>, sem |-> <<>>, cache |-> cache]
    ELSE [by |-> "AX", lex |-> index.corpus, ids |-> cache, sem |-> PapersOf(coll),
          cache |-> cache]

Fits(coll, batch) == Len(coll) + Len(batch) <= MaxStored

StorePapers ==
    /\ impl = "AX"
    /\ \E papers \in Batches, failAt \in 0..MaxBatch, addOk \in BOOLEAN :
         /\ Fits(papers_cache, papers)
         /\ LET out == AX_store_papers(papers_cache, collection, bm25, papers, failAt, addOk)
            IN  /\ papers_cache' = out.cache
                /\ collection' = out.coll
                /\ bm25' = out.index
                /\ ret' = out.ret
    /\ UNCHANGED <<searchVars, call, repeatVars, documents_corpus, seen>>

IngestDocuments ==
    /\ impl = "FC"
    /\ \E documents \in Batches, failed \in SUBSET (1..MaxBatch), addOk \in BOOLEAN :
         /\ Fits(collection, documents)
         /\ LET out == FC_ingest_documents(collection, documents, failed, addOk)
            IN  /\ collection' = out.coll
                /\ ret' = IF out.raised THEN "raised" ELSE out.ret
    /\ UNCHANGED <<searchVars, call, repeatVars, papers_cache, bm25, documents_corpus, seen>>

QuickIngest ==
    /\ impl = "FC"
    /\ \E all_docs \in Batches, failed \in SUBSET (1..MaxBatch), addOk \in BOOLEAN :
         /\ Fits(collection, all_docs)
         /\ LET out == FC_quick_ingest(collection, all_docs, failed, addOk)
            IN  /\ collection' = out.coll
                /\ ret' = IF out.raised THEN "raised" ELSE out.ret
    /\ UNCHANGED <<searchVars, call, repeatVars, papers_cache, bm25, documents_corpus, seen>>

ProcessPapers ==
    /\ impl = "ASE"
    /\ \E papers \in Batches, addOk \in BOOLEAN :
         /\ Fits(collection, papers)
         /\ LET out == ASE_process_papers(collection, papers, addOk)
            IN  /\ collection' = out.coll
                /\ ret' = IF out.raised THEN "raised" ELSE "None"
    /\ UNCHANGED <<searchVars, call, repeatVars, papers_cache, bm25, documents_corpus, seen>>

\* initialize_database over the persistent directory: a collection whose
\* test query succeeds is reopened as it is; one that answers the test
\* query with a dimension error is deleted with its directory and a new,
\* empty one is created
AX_initialize_database(stored, compatible) == IF compatible THEN stored ELSE <<>>

\* the backend process starts: the module globals are papers_cache = [],
\* bm25 = None, and startup_event calls initialize_database
Startup ==
    /\ impl = "AX"
    /\ \E compatible \in BOOLEAN :
         collection' = AX_initialize_database(collection, compatible)
    /\ papers_cache' = <<>>
    /\ bm25' = NoIndex
    /\ ret' = "None"
    /\ UNCHANGED <<searchVars, call, repeatVars, documents_corpus, seen>>

\* POST /reset: the directory is removed, the globals are cleared and
\* initialize_database creates an empty collection
ResetDatabase ==
    /\ impl = "AX"
    /\ papers_cache' = <<>>
    /\ bm25' = NoIndex
    /\ collection' = AX_initialize_database(<<>>, TRUE)
    /\ ret' = "None"
    /\ UNCHANGED <<searchVars, call, repeatVars, documents_corpus, seen>>

\* HybridSearchEngine.__init__ / _build_bm25_index and SearchEngine.__init__ /
\* _init_bm25: the engine keeps the documents the collection holds now; the
\* backend has no engine object and serves from its module globals
BuildIndex ==
    /\ impl \in {"FC", "ASE"}
    /\ documents_corpus' = PapersOf(collection)
    /\ pc' = "serving"
    /\ UNCHANGED <<impl, docs, req, calls, semChan, lexChan, fused, results,
                   callVars, repeatVars, collection, papers_cache, bm25, seen>>

\* a search request, as the versions of the stores it reads
SearchStores ==
    /\ pc = "serving"
    /\ seen' = CASE impl = "FC" -> FC_reads(collection, documents_corpus)
                 [] impl = "ASE" -> ASE_reads(collection, documents_corpus)
                 [] impl = "AX" -> AX_reads(papers_cache, collection, bm25)
    /\ UNCHANGED <<searchVars, callVars, repeatVars, collection, papers_cache, bm25,
                   documents_corpus>>

InitIngest ==
    /\ impl \in {"FC", "ASE", "AX"}
    /\ docs = <<>>
    /\ req = None
    /\ pc = IF impl = "AX" THEN "serving" ELSE "no engine"
    /\ NoOutput
    /\ NoCall /\ NoRepeat /\ NoStores

NextIngest ==
    StorePapers \/ IngestDocuments \/ QuickIngest \/ ProcessPapers
        \/ BuildIndex \/ SearchStores \/ Startup \/ ResetDatabase

SpecIngest == InitIngest /\ [][NextIngest]_vars

(* ------------------- a failed ingest, tried again --------------------- *)

\* new_papers = [paper for paper in papers if paper['id'] not in existing_ids]
AX_new_papers(cache, papers) ==
    LET isNew(q) == q \notin Range(cache) IN SelectSeq(papers, isNew)

\* store_papers returns False because the embedding call of one of the new
\* papers fails; the batch is remembered
StoreFails ==
    /\ impl = "AX"
    /\ pc = "serving"
    /\ \E papers \in Batches, failAt \in 1..MaxBatch :
         /\ Fits(papers_cache, papers)
         /\ failAt <= Len(AX_new_papers(papers_cache, papers))
         /\ LET out == AX_store_papers(papers_cache, collection, bm25, papers, failAt, TRUE)
            IN  /\ papers_cache' = out.cache
                /\ collection' = out.coll
                /\ bm25' = out.index
                /\ ret' = out.ret
         /\ call' = [fn |-> "store_papers", papers |-> papers]
    /\ pc' = "failed"
    /\ UNCHANGED <<impl, docs, req, calls, semChan, lexChan, fused, results,
                   repeatVars, documents_corpus, seen>>

\* store_papers is called again with the same batch while the embedding
\* provider and the store work
StoreAgain ==
    /\ impl = "AX"
    /\ pc = "failed"
    /\ LET out == AX_store_papers(papers_cache, collection, bm25, call.papers, 0, TRUE)
       IN  /\ papers_cache' = out.cache
           /\ collection' = out.coll
           /\ bm25' = out.index
           /\ ret' = out.ret
    /\ pc' = "retried"
    /\ UNCHANGED <<impl, docs, req, calls, semChan, lexChan, fused, results,
                   call, repeatVars, documents_corpus, seen>>

InitRetry == InitIngest /\ impl = "AX"

NextRetry == StorePapers \/ StoreFails \/ StoreAgain

SpecRetry == InitRetry /\ [][NextRetry]_vars

(* ---------------------------- POST /index ----------------------------- *)

\* index_papers -> [status, cache, coll, index]: a failed fetch from arXiv
\* raises inside the try; 'if success' is taken only for True, and the
\* HTTPException raised in the else branch is caught by the handler's own
\* except and raised again with status 500
AX_index_papers(cache, coll, index, fetchOk, papers, failAt, addOk) ==
    LET out == AX_store_papers(cache, coll, index, papers, failAt, addOk)
    IN  IF ~fetchOk
        THEN [status |-> "500", cache |-> cache, coll |-> coll, index |-> index]
        ELSE [status |-> IF out.ret = "True" THEN "200" ELSE "500",
              cache |-> out.cache, coll |-> out.coll, index |-> out.index]

IndexPapers ==
    /\ impl = "AX"
    /\ pc = "serving"
    /\ \E papers \in Batches, fetchOk \in BOOLEAN, failAt \in 0..MaxBatch, addOk \in BOOLEAN :
         /\ Fits(papers_cache, papers)
         /\ LET out == AX_index_papers(papers_cache, collection, bm25, fetchOk, papers,
                                       failAt, addOk)
            IN  /\ papers_cache' = out.cache
                /\ collection' = out.coll
                /\ bm25' = out.index
                /\ ret' = out.status
         /\ call' = [fn |-> "index_papers", fetched |-> fetchOk, papers |-> papers]
    /\ pc' = "indexed"
    /\ UNCHANGED <<impl, docs, req, calls, semChan, lexChan, fused, results,
                   repeatVars, documents_corpus, seen>>

InitIndex == InitIngest /\ impl = "AX"

NextIndex == StorePapers \/ IndexPapers

SpecIndex == InitIndex /\ [][NextIndex]_vars

(* ------------------------- query expansion ---------------------------- *)

\* A text is a sequence of tokens: words, a markdown label "**label**:", an
\* unbroken run of MaxExpandedLen characters, the line break NL and the
\* blank SP.  Two neighbouring tokens that are neither NL nor SP are one
\* blank apart.  No text here carries a quote character.
NL == "NL"
SP == "SP"
Bold == "**label**:"
Runaway == "runaway"
Words == {"gnn", "graph", "net"}
Tokens == Words \cup {Runaway, Bold, NL}

\* len(expanded) < 100
MaxExpandedLen == 100

CharLen(t) ==
    CASE t = "gnn" -> 3
      [] t = "net" -> 3
      [] t = "graph" -> 5
      [] t = "label" -> 5
      [] t = Bold -> 10
      [] t = Runaway -> MaxExpandedLen
      [] OTHER -> 1

White(t) == t \in {NL, SP}

\* len(text)
RECURSIVE TextLen(_)
TextLen(t) ==
    IF t = <<>> THEN 0
    ELSE CharLen(t[1])
         + (IF Len(t) > 1 /\ ~White(t[1]) /\ ~White(t[2]) THEN 1 ELSE 0)
         + TextLen(Tail(t))

RECURSIVE LStrip(_)
LStrip(t) == IF t # <<>> /\ White(t[1]) THEN LStrip(Tail(t)) ELSE t

\* str.strip()
Strip(t) == Reverse(LStrip(Reverse(LStrip(t))))

\* str.replace('\n', ' ')
ReplaceNL(t) == [k \in 1..Len(t) |-> IF t[k] = NL THEN SP ELSE t[k]]

\* re.sub(r'\*\*.*?\*\*:?\s*', '', text): each label goes, with the white
\* space that follows it
RECURSIVE DropBold(_)
DropBold(t) ==
    IF t = <<>> THEN <<>>
    ELSE IF t[1] = Bold THEN DropBold(LStrip(Tail(t)))
    ELSE <<t[1]>> \o DropBold(Tail(t))

\* text.split('\n')[0]
RECURSIVE FirstLine(_)
FirstLine(t) ==
    IF t = <<>> \/ t[1] = NL THEN <<>> ELSE <<t[1]>> \o FirstLine(Tail(t))

\* re.findall(r'\b\w+\b', text.lower()), as the set the code makes of them
Terms(t) ==
    {IF t[k] = Bold THEN "label" ELSE t[k] : k \in {j \in 1..Len(t) : ~White(t[j])}}

\* the orders in which ' '.join(list(set(...))) can lay out a set of terms
\* (the iteration order of a set of strings is the interpreter's choice)
Orderings(S) ==
    {s \in [1..Cardinality(S) -> S] : \A i, j \in 1..Cardinality(S) : s[i] = s[j] => i = j}

\* what the generation provider does with a request: it answers with a
\* text, or the call fails in one of four ways
Failures == {"error", "timeout", "status", "malformed"}
Failed(reply) == reply.kind \in Failures

\* a handler that lets a malformed answer escape
FC_expand_query_uncaught(query, reply) ==
    IF reply.kind = "malformed" THEN [raised |-> TRUE, text |-> <<>>]
    ELSE [raised |-> FALSE, text |-> query]

\* HybridSearchEngine.expand_query: the ollama client raises for a failed
\* connection, a timeout and a non-success status, response['response']
\* raises on an answer without that field, and except Exception returns the
\* query
FC_expand_query(query, reply) ==
    IF Failed(reply) THEN [raised |-> FALSE, text |-> query]
    ELSE LET expanded == ReplaceNL(Strip(reply.text))
         IN  [raised |-> FALSE, text |-> IF expanded # <<>> THEN expanded ELSE query]

\* SearchEngine.expand_query: no status check, but an answer without the
\* field 'response' (the provider's error body) raises inside the try;
\* joined is the order in which the set of terms is laid out
ASE_expand_query(query, reply, joined) ==
    IF Failed(reply) THEN [raised |-> FALSE, text |-> query]
    ELSE [raised |-> FALSE, text |-> joined]

ASE_all_terms(query, reply) ==
    IF Failed(reply) THEN {} ELSE Terms(query) \cup Terms(Strip(reply.text))

\* expand_query_with_gemma
AX_expand_query(query, reply) ==
    IF Failed(reply) THEN [raised |-> FALSE, text |-> query]
    ELSE LET expanded == Strip(FirstLine(DropBold(Strip(reply.text))))
         IN  [raised |-> FALSE,
              text |-> IF TextLen(expanded) > TextLen(query)
                          /\ TextLen(expanded) < MaxExpandedLen
                       THEN expanded ELSE query]

(* --------------------- the same search, twice ------------------------- *)

\* the query of the repeated request and the two texts the generation
\* provider may sample for it (temperature 0.3 in final_code and in the
\* backend, the provider's default in arxiv-search-engine)
RepeatQuery == <<"gnn">>
Samples == {[kind |-> "ok", text |-> <<"gnn", "graph">>],
            [kind |-> "ok", text |-> <<"gnn", "net">>]}

\* largest corpus searched twice
RepeatDocs == 2

RepeatCorpora(n) == [1..n -> [bm25 : {0, 4}, dist : DistSet, cat : {"cs.CV"}]]

\* the texts an implementation may score with, after its expansion
Expansions(i, reply) ==
    CASE i = "FC" -> {FC_expand_query(RepeatQuery, reply).text}
      [] i = "AX" -> {AX_expand_query(RepeatQuery, reply).text}
      [] i = "ASE" -> {ASE_expand_query(RepeatQuery, reply, joined).text :
                         joined \in Orderings(ASE_all_terms(RepeatQuery, reply))}

\* BM25 scores and distances are functions of the scoring text: docs holds
\* them for the texts without the word net, alt for the texts with it
ScoredFor(text) == IF "net" \in Terms(text) THEN alt ELSE docs

SearchOf(i, d, r) ==
    CASE i = "FC" -> FC_hybrid_search(d, r)
      [] i = "ASE" -> ASE_hybrid_search(d, r, r.topK)
      [] i = "AX" -> AX_hybrid_search(d, r)

InitRepeat ==
    /\ impl \in {"FC", "ASE", "AX"}
    /\ req \in {r \in ReqSet : /\ r.filter = NoFilter /\ r.topK \in {1, 2}
                               /\ r.embedOk /\ r.queryOk /\ r.alpha \in 0..AlphaDen}
    /\ Carries(impl, req)
    /\ \E n \in 0..RepeatDocs : docs \in RepeatCorpora(n) /\ alt \in RepeatCorpora(n)
    /\ first = <<>>
    /\ pc = "received"
    /\ NoOutput
    /\ NoCall /\ NoStores

FirstSearch ==
    /\ pc = "received"
    /\ \E reply \in Samples : \E text \in Expansions(impl, reply) :
         first' = SearchOf(impl, ScoredFor(text), req).results
    /\ pc' = "repeating"
    /\ UNCHANGED <<impl, docs, req, calls, semChan, lexChan, fused, results,
                   alt, callVars, storeVars>>

SecondSearch ==
    /\ pc = "repeating"
    /\ \E reply \in Samples : \E text \in Expansions(impl, reply) :
         Record(SearchOf(impl, ScoredFor(text), req))
    /\ pc' = "repeated"
    /\ UNCHANGED <<impl, docs, req, repeatVars, callVars, storeVars>>

NextRepeat == FirstSearch \/ SecondSearch

SpecRepeat == InitRepeat /\ [][NextRepeat]_vars

(* ----------------------------- summaries ------------------------------ *)

\* results[:5]
TopRead == 5

\* a message is a sequence of parts; str(e) of a failed call is the part
\* that names the failure
NoResultsMessage == <<"Aucun résultat trouvé pour générer un résumé.">>
UnavailableMessage == <<"Impossible de générer un résumé pour le moment.">>
ErrorPrefix == "Erreur lors de la génération du résumé: "
Generated == <<"generated summary">>

\* result['metadata'] raises on a result without that key; hasMeta is the
\* sequence that tells which results carry it
MetadataRaises(hasMeta) == \E k \in 1..Len(PyHead(hasMeta, TopRead)) : ~hasMeta[k]

\* HybridSearchEngine.generate_summary: the titles are read before the try
FC_generate_summary(hasMeta, reply) ==
    IF hasMeta = <<>> THEN [raised |-> FALSE, text |-> NoResultsMessage]
    ELSE IF MetadataRaises(hasMeta) THEN [raised |-> TRUE, text |-> <<>>]
    ELSE IF Failed(reply) THEN [raised |-> FALSE, text |-> <<ErrorPrefix, reply.kind>>]
    ELSE [raised |-> FALSE, text |-> Generated]

\* SearchEngine.generate_summary: everything is inside the try
ASE_generate_summary(hasMeta, reply) ==
    IF MetadataRaises(hasMeta) \/ Failed(reply)
    THEN [raised |-> FALSE, text |-> UnavailableMessage]
    ELSE [raised |-> FALSE, text |-> Generated]

(* ---------------------------- date filter ----------------------------- *)

\* A date string is a naive ISO date(time), an ISO datetime with a UTC
\* offset (what paper.published.isoformat() stores), or a string that
\* datetime.fromisoformat rejects (the default '' among them); t is its
\* instant.
LastInstant == 2
Stamps ==
    [kind : {"naive", "aware"}, t : 0..LastInstant] \cup [kind : {"bad"}, t : {0}]

\* SearchEngine._date_in_range: fromisoformat raises on a bad string, <=
\* raises between a naive and an aware datetime, and the bare except
\* answers True; start <= pub <= end compares pub with end only when
\* start <= pub holds
ASE_date_in_range(pub, range) ==
    IF pub.kind = "bad" \/ range[1].kind = "bad" \/ range[2].kind = "bad" THEN TRUE
    ELSE IF range[1].kind # pub.kind THEN TRUE
    ELSE IF ~(range[1].t <= pub.t) THEN FALSE
    ELSE IF pub.kind # range[2].kind THEN TRUE
    ELSE pub.t <= range[2].t

\* the loop of SearchEngine.faceted_search under filters = {'date_range': range}
ASE_date_filter(published, range) ==
    LET include(pub) == ASE_date_in_range(pub, range)
    IN  SelectSeq(published, include)

(* -------------------- streamlit_app: simple_search -------------------- *)

\* scores in hundredths: a title match counts 0.7, an abstract match 0.5
TitleScore == 70
AbstractScore == 50
FullScore == 100
\* the scores the sample records carry
SampleScores == {95, 87}

\* most records handed to one search
MaxData == 2

\* a record's title and abstract are one word each, so that the query, a
\* word, is in the text exactly when it is that word ('' is the empty query)
Items == [title : Words, abstract : Words, score : SampleScores]

\* simple_search -> [raised, results, data]: data is the caller's list as
\* the call leaves it; item['score'] = ... writes into the caller's record
simple_search(query, data) ==
    LET title_match(item) == query[1] = item.title
        abstract_match(item) == query[1] = item.abstract
        matched(item) == title_match(item) \/ abstract_match(item)
        score(item) == (IF title_match(item) THEN TitleScore ELSE 0)
                       + (IF abstract_match(item) THEN AbstractScore ELSE 0)
        scored(item) ==
            IF matched(item) THEN [item EXCEPT !.score = Min(score(item), FullScore)]
            ELSE item
        after == [k \in 1..Len(data) |-> scored(data[k])]
        keyed == SelectSeq([k \in 1..Len(data) |-> [key |-> after[k].score, pos |-> k]],
                           LAMBDA e : matched(data[e.pos]))
        sorted == SortDesc(keyed)
    IN  IF query = <<>> THEN [raised |-> FALSE, results |-> data, data |-> data]
        ELSE [raised |-> FALSE,
              results |-> [k \in 1..Len(sorted) |-> after[sorted[k].pos]],
              data |-> after]

(* ------------------------- helper calls ------------------------------- *)

\* longest answer of the generation provider, in tokens
MaxReply == 2
\* longest query, in words
MaxQuery == 2

Queries == SeqsOf(Words, MaxQuery) \ {<<>>}

Replies ==
    [kind : {"ok"}, text : SeqsOf(Tokens, MaxReply)]
        \cup [kind : Failures, text : {<<>>}]

ExpandCalls ==
    [fn : {"expand_query"}, impl : {"FC", "ASE", "AX"}, query : Queries, reply : Replies]

SummaryCalls ==
    [fn : {"generate_summary"}, impl : {"FC", "ASE"},
     hasMeta : SeqsOf(BOOLEAN, TopRead + 1),
     reply : [kind : {"ok"} \cup Failures, text : {<<>>}]]

\* most results of one filtered search
MaxDated == 2

FacetCalls ==
    [fn : {"date_filter"}, impl : {"ASE"},
     published : SeqsOf(Stamps, MaxDated), range : Stamps \X Stamps]

SimpleCalls ==
    [fn : {"simple_search"}, query : SeqsOf(Words, 1), data : SeqsOf(Items, MaxData)]

\* the collections one successful ingest leaves behind
Ingested1 == {FC_add_documents(<<>>, b, {}, TRUE).coll : b \in Batches}

IngestCalls ==
    [fn : {"ingest_documents"}, coll : Ingested1, documents : Batches,
     failed : SUBSET (1..MaxBatch), addOk : BOOLEAN]

\* no search request
NoSearch ==
    /\ impl = None
    /\ docs = <<>>
    /\ req = None
    /\ NoOutput

Return(value) ==
    /\ pc = "calling"
    /\ pc' = "called"
    /\ ret' = value
    /\ UNCHANGED <<call, impl, docs, req, calls, semChan, lexChan, fused, results,
                   repeatVars, storeVars>>

ExpandFC ==
    /\ call.fn = "expand_query" /\ call.impl = "FC"
    /\ Return(FC_expand_query(call.query, call.reply))

ExpandASE ==
    /\ call.fn = "expand_query" /\ call.impl = "ASE"
    /\ pc = "calling"
    /\ \E joined \in Orderings(ASE_all_terms(call.query, call.reply)) :
         Return(ASE_expand_query(call.query, call.reply, joined))

ExpandAX ==
    /\ call.fn = "expand_query" /\ call.impl = "AX"
    /\ Return(AX_expand_query(call.query, call.reply))

SummaryFC ==
    /\ call.fn = "generate_summary" /\ call.impl = "FC"
    /\ Return(FC_generate_summary(call.hasMeta, call.reply))

SummaryASE ==
    /\ call.fn = "generate_summary" /\ call.impl = "ASE"
    /\ Return(ASE_generate_summary(call.hasMeta, call.reply))

FacetDates ==
    /\ call.fn = "date_filter"
    /\ Return([raised |-> FALSE, kept |-> ASE_date_filter(call.published, call.range)])

SimpleSearch ==
    /\ call.fn = "simple_search"
    /\ Return(simple_search(call.query, call.data))

IngestCall ==
    /\ call.fn = "ingest_documents"
    /\ Return(FC_ingest_documents(call.coll, call.documents, call.failed, call.addOk))

InitOfCalls(made) ==
    /\ call \in made
    /\ ret = None
    /\ pc = "calling"
    /\ NoSearch /\ NoRepeat /\ NoStores

\* the expansions of a query
InitExpand == InitOfCalls(ExpandCalls)

NextExpand == ExpandFC \/ ExpandASE \/ ExpandAX

SpecExpand == InitExpand /\ [][NextExpand]_vars

\* summaries, date filters, searches of the sample records and ingests
InitCalls == InitOfCalls(SummaryCalls \cup FacetCalls \cup SimpleCalls \cup IngestCalls)

NextCalls == SummaryFC \/ SummaryASE \/ FacetDates \/ SimpleSearch \/ IngestCall

SpecCalls == InitCalls /\ [][NextCalls]_vars

(* ------------------- data_ingestion: chunk_text ----------------------- *)

\* longest text, in characters, and the largest configured values of
\* config['data']['chunk_size'] and config['data']['chunk_overlap']
MaxText == 3
MaxChunkSize == 2
MaxChunkOverlap == 2

Chars == {"a", "b", SP, NL}

\* re.sub(r'\s+', ' ', text)
RECURSIVE Collapse(_)
Collapse(t) ==
    IF t = <<>> THEN <<>>
    ELSE IF White(t[1]) THEN <<SP>> \o Collapse(LStrip(Tail(t)))
    ELSE <<t[1]>> \o Collapse(Tail(t))

\* re.sub(r'\s+', ' ', text).strip()
Normalize(t) == Strip(Collapse(t))

ChunkCalls ==
    [fn : {"chunk_text"}, text : SeqsOf(Chars, MaxText),
     chunk_size : 1..MaxChunkSize, chunk_overlap : 0..MaxChunkOverlap]

\* chunk_text at the head of its loop: text cleaned, chunks = [], start = 0
InitChunk ==
    /\ call \in ChunkCalls
    /\ ret = [text |-> Normalize(call.text), start |-> 0, chunks |-> <<>>]
    /\ pc = "chunking"
    /\ NoSearch /\ NoRepeat /\ NoStores

\* one iteration of 'while start < len(text)'.  The loop is followed for
\* one iteration more than len(text), which is more than any positive step
\* needs.
ChunkStep ==
    /\ pc = "chunking"
    /\ ret.start < Len(ret.text)
    /\ Len(ret.chunks) <= Len(ret.text)
    /\ LET end == Min(ret.start + call.chunk_size, Len(ret.text))
           chunk == PySlice(ret.text, ret.start, end)
       IN  ret' = [ret EXCEPT !.chunks = Append(@, chunk),
                              !.start = @ + call.chunk_size - call.chunk_overlap]
    /\ UNCHANGED <<searchVars, call, repeatVars, storeVars>>

\* the loop condition fails: return chunks
ChunkReturn ==
    /\ pc = "chunking"
    /\ ~(ret.start < Len(ret.text))
    /\ pc' = "chunked"
    /\ UNCHANGED <<impl, docs, req, calls, semChan, lexChan, fused, results,
                   callVars, repeatVars, storeVars>>

NextChunk == ChunkStep \/ ChunkReturn

SpecChunk == InitChunk /\ [][NextChunk]_vars

(* ------------------------------ claims -------------------------------- *)

Returned == pc = "returned"
Raised == pc = "raised"
ValidAlpha == req.alpha \in 0..AlphaDen
ValidTopK == req.topK >= 1
ValidRequest == ValidAlpha /\ ValidTopK

Ids(ch) == {ch[k].id : k \in 1..Len(ch)}
SemIds == Ids(semChan)
LexIds == {lexChan[k].idx : k \in 1..Len(lexChan)}
SemPos(id) == SetMin({k \in 1..Len(semChan) : semChan[k].id = id})
LexPos(id) == SetMin({k \in 1..Len(lexChan) : lexChan[k].idx = id})
Keys(ch) == {ch[k].key : k \in 1..Len(ch)}

\* C1: for a fusion weight in [0,1] every fused score of a returned result
\* lies in [0,1], whatever distances in [0,2] the semantic channel reports.
C1_FusedScoreInUnitInterval ==
    (Returned /\ ValidRequest) =>
        \A k \in 1..Len(results) :
            0 <= results[k].key /\ results[k].key <= results[k].den

\* C2: in final_code, when a channel returns one candidate, or candidates
\* whose raw scores are all equal, each of them has normalized score 1.
C2_SingleCandidateNormalizedToOne ==
    (Returned /\ impl = "FC" /\ ValidRequest) =>
        /\ Cardinality(Keys(semChan)) = 1 =>
             \A k \in 1..Len(fused) :
                 fused[k].id \in SemIds => fused[k].semNum = fused[k].semDen
        /\ Cardinality(Keys(lexChan)) = 1 =>
             \A k \in 1..Len(fused) :
                 fused[k].id \in LexIds => fused[k].lexNum = fused[k].lexDen

Fusing == impl \in {"FC", "ASE", "ASEF"}

C4_EmbeddingFailureDegradesToLexical ==
    (pc # "received" /\ ~req.embedOk /\ ValidRequest /\ req.alpha < AlphaDen) =>
        /\ Returned
        /\ \A k \in 1..Len(results) : results[k].semNum = 0
        /\ \A j, k \in 1..Len(results) :
             j < k => docs[results[j].id].bm25 >= docs[results[k].id].bm25

\* C5: search raises to its caller only for a request that fails validation.
C5_OnlyValidationErrorsPropagate ==
    Raised => ~ValidRequest

\* C6: a request whose weight is outside [0,1] or whose topK is not positive
\* is rejected before any expansion or channel call.
C6_InvalidRequestRejectedBeforeChannels ==
    (pc # "received" /\ ~ValidRequest) => (Raised /\ calls = {})

\* C7: a returned result list is never longer than topK.
C7_AtMostTopK ==
    (Returned /\ results # <<>>) => Len(results) <= req.topK

\* C8: with a category filter every returned document has that category.
C8_ResultsMatchCategoryFilter ==
    (Returned /\ ValidRequest /\ req.filter # NoFilter) =>
        \A k \in 1..Len(results) : docs[results[k].id].cat = req.filter

\* C9 as stated: in final_code with weight 0 the returned order is the
\* lexical channel's: no document it did not return stands above one it
\* returned.  (Stated where the lexical channel returned two different raw
\* scores, so that the score 0 of a single candidate, C2, plays no part.)
C9_AlphaZeroIsLexicalOrder ==
    (Returned /\ impl = "FC" /\ req.alpha = 0 /\ ValidTopK
       /\ Cardinality(Keys(lexChan)) >= 2) =>
        \A j, k \in 1..Len(results) :
            (j < k /\ results[k].id \in LexIds) => results[j].id \in LexIds

\* C9 amended: in final_code with weight 0 the returned order is the
\* lexical channel's except among results whose fused scores are equal: a
\* result standing above one with another fused score was returned by the
\* lexical channel, and before that one if both were.
C9_AlphaZeroIsLexicalOrderTiesAside ==
    (Returned /\ impl = "FC" /\ req.alpha = 0) =>
        \A j, k \in 1..Len(results) :
            (j < k /\ results[j].key # results[k].key) =>
                /\ results[j].id \in LexIds
                /\ results[k].id \in LexIds =>
                       LexPos(results[j].id) < LexPos(results[k].id)

C9_Witness ==
    /\ Returned /\ impl = "FC" /\ req.alpha = 0 /\ ValidTopK
    /\ Len(results) >= 2
    /\ results[1].key # results[2].key
    /\ SemIds \ LexIds # {}

\* C10: in final_code with weight 1 the returned order is the semantic
\* channel's except among results whose fused scores are equal.
C10_AlphaOneIsSemanticOrderTiesAside ==
    (Returned /\ impl = "FC" /\ req.alpha = AlphaDen) =>
        \A j, k \in 1..Len(results) :
            (j < k /\ results[j].key # results[k].key) =>
                /\ results[j].id \in SemIds
                /\ results[k].id \in SemIds =>
                       SemPos(results[j].id) < SemPos(results[k].id)

\* two results the channels order differently, in the semantic order
C10_Witness ==
    /\ Returned /\ impl = "FC" /\ req.alpha = AlphaDen /\ ValidTopK
    /\ Len(results) >= 2
    /\ results[1].key # results[2].key
    /\ {results[1].id, results[2].id} \subseteq LexIds
    /\ LexPos(results[2].id) < LexPos(results[1].id)

\* C11: two executions of the same search request against the same corpus
\* return the same ordered list (ids, order, scores).
\* a / b = c / d
RatEq(a, b, c, d) == IF b = d THEN a = c ELSE a * d = c * b

SameScored(a, b) ==
    /\ a.id = b.id
    /\ RatEq(a.key, a.den, b.key, b.den)
    /\ RatEq(a.semNum, a.semDen, b.semNum, b.semDen)
    /\ RatEq(a.lexNum, a.lexDen, b.lexNum, b.lexDen)

SameList(x, y) ==
    /\ Len(x) = Len(y)
    /\ \A k \in 1..Len(x) : SameScored(x[k], y[k])

C11_RepeatedSearchReturnsSameList ==
    pc = "repeated" => SameList(first, results)

\* C12: in no store, cache or lexical index does a paper occur twice,
\* whatever batches were ingested.
C12_NoPaperStoredTwice ==
    /\ Distinct(PapersOf(collection))
    /\ Distinct(papers_cache)
    /\ Distinct(bm25.corpus)
    /\ Distinct(documents_corpus)

Expanded == pc = "called" /\ call.fn = "expand_query"

\* C13: when the generation provider fails (error, timeout, non-success
\* status, malformed answer) the expansion returns the query it was given,
\* unchanged, and raises nothing.
C13_ExpansionFailsOpen ==
    (Expanded /\ Failed(call.reply)) => (~ret.raised /\ ret.text = call.query)

C13_Witness ==
    /\ Expanded /\ call.impl = "ASE" /\ call.reply.kind = "status"
    /\ Len(call.query) = MaxQuery
    /\ ret.text = call.query

\* C14: the text returned for scoring is the query itself unless it is
\* strictly longer than the query and shorter than the upper bound.
C14_ExpansionAcceptancePolicy ==
    (Expanded /\ ~Failed(call.reply)) =>
        \/ ret.text = call.query
        \/ /\ TextLen(ret.text) > TextLen(call.query)
           /\ TextLen(ret.text) < MaxExpandedLen

\* C15: a search of final_code or arxiv-search-engine reads one version of
\* the corpus: the documents its BM25 index scores are the documents its
\* vector query ranks, and the id a lexical hit is given is the id of the
\* document whose text was scored.
C15_OneCorpusVersionPerSearch ==
    seen.by \in {"FC", "ASE"} =>
        /\ seen.lex = seen.sem
        /\ \A k \in 1..Len(seen.lex) : k <= Len(seen.ids) => seen.ids[k] = seen.lex[k]

\* C16: a search of the backend never reads a corpus cache, a vector
\* collection and a BM25 index that describe different sets of documents.
C16_StoresPublishedTogether ==
    seen.by = "AX" =>
        /\ Range(seen.cache) = Range(seen.sem)
        /\ Range(seen.cache) = Range(seen.lex)

Summarized == pc = "called" /\ call.fn = "generate_summary"

\* C17: the summary operation raises nothing, whatever results it is given,
\* and when the generation provider fails the message it returns does not
\* depend on the failure.
C17_SummaryNeverRaises ==
    Summarized =>
        /\ ~ret.raised
        /\ Failed(call.reply) => \A k \in 1..Len(ret.text) : ret.text[k] \notin Failures

Matches(e) == docs[e.id].cat = req.filter

\* C18: when at least topK fused candidates match the category filter, the
\* search returns exactly the topK best of them.
C18_FilterBeforeTruncation ==
    (Returned /\ ValidRequest /\ req.filter # NoFilter) =>
        (Len(SelectSeq(fused, Matches)) >= req.topK =>
             results = PyHead(SelectSeq(fused, Matches), req.topK))

Dated == pc = "called" /\ call.fn = "date_filter"

Parsed(pub, range) ==
    pub.kind # "bad" /\ range[1].kind # "bad" /\ range[2].kind # "bad"
Within(pub, range) == range[1].t <= pub.t /\ pub.t <= range[2].t
Comparable(pub, range) ==
    Parsed(pub, range) /\ range[1].kind = pub.kind /\ range[2].kind = pub.kind

\* a range of two dates written the same way
WellFormed(range) == range[1].kind # "bad" /\ range[1].kind = range[2].kind

\* C19: under a well-formed date range a document is kept only if its
\* published date can be read and lies within the range, end points
\* included, and it is kept if it can be compared with the range and lies
\* within it.
C19_DateRangeKeepsExactlyInside ==
    (Dated /\ WellFormed(call.range)) =>
        /\ \A k \in 1..Len(ret.kept) :
             Parsed(ret.kept[k], call.range) /\ Within(ret.kept[k], call.range)
        /\ \A k \in 1..Len(call.published) :
             (Comparable(call.published[k], call.range)
                /\ Within(call.published[k], call.range)) =>
                 \E j \in 1..Len(ret.kept) : ret.kept[j] = call.published[k]

\* C20: the fused list is in descending order of fused score, and results
\* of equal fused score are in ascending order of document id.
C20_TiesBrokenById ==
    (Returned /\ ValidRequest) =>
        \A j, k \in 1..Len(fused) :
            j < k =>
                /\ fused[j].key >= fused[k].key
                /\ fused[j].key = fused[k].key => fused[j].id < fused[k].id

\* C21: every returned result was returned by one of the two channels: a
\* document whose raw BM25 score is 0 and that the semantic channel did not
\* return is not in the result list.
C21_ResultsFromChannelUnion ==
    (Returned /\ ValidRequest) =>
        \A k \in 1..Len(results) :
            results[k].id \in SemIds \/ docs[results[k].id].bm25 > 0

\* the documents the lexical index in use was built from
IndexCorpus == IF impl = "AX" THEN bm25.corpus ELSE documents_corpus

\* C22: while an engine serves searches its lexical index covers exactly
\* the documents the store holds: an ingest that added documents is followed
\* by a rebuild before the next search.
C22_IndexCoversStore ==
    pc = "serving" => Range(IndexCorpus) = Range(PapersOf(collection))

Searched == pc = "called" /\ call.fn = "simple_search"

\* C23: a search is read-only: when it has returned, the records its
\* caller handed to it are as they were before the call.
C23_SearchLeavesInputUnchanged ==
    Searched => ret.data = call.data

\* C24: an empty corpus is not an error: over a store that holds no
\* document and answers its queries, a search for a positive number of
\* results raises nothing, its lexical channel returns the empty list and
\* so does the search.
C24_EmptyCorpusIsNotAnError ==
    (pc # "received" /\ docs = <<>> /\ req.queryOk /\ ValidTopK) =>
        /\ Returned
        /\ lexChan = <<>>
        /\ results = <<>>

C24_Witness ==
    /\ Returned /\ impl = "FC" /\ docs = <<>>
    /\ req.embedOk /\ req.queryOk
    /\ {"vector", "lexical"} \subseteq calls
    /\ results = <<>>

\* C25: every raw score of the semantic channel is max(0, 1 - d) for the
\* distance d of its document, hence in [0,1], and the channel's candidates
\* are in descending order of that score.
C25_SemanticScoreClamped ==
    (Returned /\ ValidRequest) =>
        /\ \A k \in 1..Len(semChan) :
             /\ semChan[k].key = Max(0, DistDen - QueryDist(docs, semChan[k].id,
                                                            impl # "FC" /\ ~req.embedOk))
             /\ 0 <= semChan[k].key /\ semChan[k].key <= DistDen
        /\ \A j, k \in 1..Len(semChan) : j < k => semChan[j].key >= semChan[k].key

\* C26: in the backend, whatever store_papers, reset and startup operations
\* have run, papers_cache and the collection hold the same set of ids, and
\* a BM25 index that exists was built from the papers_cache of now.
C26_CacheCollectionIndexAgree ==
    impl = "AX" =>
        /\ Range(papers_cache) = Range(PapersOf(collection))
        /\ bm25.built => bm25.corpus = papers_cache

\* C27: in the backend, when store_papers has returned False for a batch
\* because an embedding call failed and is called again with that batch
\* while the provider works, every paper of the batch is in the collection
\* and in the BM25 index.
C27_RetryStoresFailedBatch ==
    pc = "retried" =>
        /\ Range(call.papers) \subseteq Range(PapersOf(collection))
        /\ Range(call.papers) \subseteq Range(bm25.corpus)

\* the /index operation has just handled a batch fetched from arXiv whose
\* papers were all in papers_cache already
IndexedKnownBatch ==
    /\ pc = "serving" /\ pc' = "indexed"
    /\ call'.fetched
    /\ Range(call'.papers) \subseteq Range(papers_cache)

\* C28: in the backend, indexing a batch whose papers are all in
\* papers_cache already leaves papers_cache, the collection and the BM25
\* index as they were and is reported as a success, not as an HTTP 500.
C28_KnownBatchIsSuccess ==
    [][IndexedKnownBatch =>
           /\ UNCHANGED <<papers_cache, collection, bm25>>
           /\ ret' = "200"]_vars

Ingested == pc = "called" /\ call.fn = "ingest_documents"

\* C29: the number ingest_documents returns is the number of documents the
\* call added to the collection, also when embeddings fail.
C29_ReturnsNumberAdded ==
    (Ingested /\ ~ret.raised) => ret.ret = Len(ret.coll) - Len(call.coll)

\* chunk k starts (k - 1) * (chunk_size - chunk_overlap) characters into
\* the cleaned text
ChunkStart(k) == (k - 1) * (call.chunk_size - call.chunk_overlap)

\* C30: chunk_text terminates (its loop makes at most len(text)
\* iterations, one chunk each), and the chunks it returns are at most
\* chunk_size long, start chunk_size - chunk_overlap characters apart and
\* cover every character of the cleaned text.
C30_ChunkTextTerminatesAndCovers ==
    /\ Len(ret.chunks) <= Len(ret.text)
    /\ pc = "chunked" =>
         /\ \A k \in 1..Len(ret.chunks) :
              /\ Len(ret.chunks[k]) <= call.chunk_size
              /\ ret.chunks[k] = PySlice(ret.text, ChunkStart(k),
                                         ChunkStart(k) + Len(ret.chunks[k]))
         /\ \A i \in 1..Len(ret.text) :
              \E k \in 1..Len(ret.chunks) :
                  ChunkStart(k) < i /\ i <= ChunkStart(k) + Len(ret.chunks[k])

====
